---- MODULE Spec2Model ----
(***************************************************************************)
(* Model of open-codegen/templates/icasadi_config.h: a Jinja2 template     *)
(* that is rendered, with the problem dimensions nu, np and ncp as its     *)
(* context, into the C header icasadi_config.h, and of what the C          *)
(* preprocessor does with the rendered header.                             *)
(*                                                                         *)
(* A text is a sequence of lines; a line is a sequence of words, the       *)
(* words of the line as separated by single blanks (a leading blank gives  *)
(* a leading empty word).                                                  *)
(***************************************************************************)
EXTENDS Integers, Sequences, FiniteSets, TLC

VARIABLES calls, file, renders, files, unit

vars == <<calls, file, renders, files, unit>>

(***************************************************************************)
(* Bounds of the model.                                                    *)
(***************************************************************************)
MaxDim == 12

NCallers == 2

MaxRenders == 3

NFiles == 2

MaxIncludes == 3

(***************************************************************************)
(* The template text.  T(w) is literal text, Var(n) the placeholder        *)
(* {{n}}, OrConst(n, k) the placeholder {{n or k}}.                        *)
(***************************************************************************)
T(w) == [kind |-> "text", s |-> w, k |-> 0]

Var(n) == [kind |-> "var", s |-> n, k |-> 0]

OrConst(n, c) == [kind |-> "or", s |-> n, k |-> c]

Lit(ws) == [i \in 1..Len(ws) |-> T(ws[i])]

Banner ==
  << Lit(<<"/*">>),
     Lit(<<"", "*", "Auto-generated", "header", "file">>),
     Lit(<<"", "*", "This", "file", "is", "part", "of", "OptimizationEngine">>),
     Lit(<<"", "*", "(see", "https://alphaville.github.io/optimization-engine/)">>),
     Lit(<<"", "*/">>) >>

GuardOpenMismatch ==
  << Lit(<<"#ifndef", "ICASADI_CONFIG_HEADER_SENTINEL">>),
     Lit(<<"#define", "ICASADI_CONFIG_HEADER">>),
     Lit(<<>>) >>

GuardOpenUndefined ==
  << Lit(<<"#ifndef", "ICASADI_CONFIG_HEADER_SENTINEL">>),
     Lit(<<>>),
     Lit(<<>>) >>

GuardOpen ==
  << Lit(<<"#ifndef", "ICASADI_CONFIG_HEADER_SENTINEL">>),
     Lit(<<"#define", "ICASADI_CONFIG_HEADER_SENTINEL">>),
     Lit(<<>>) >>

DimensionsSwapped ==
  << Lit(<<"/*", "Global", "constant", "definitions", "*/">>),
     Lit(<<>>),
     Lit(<<"/*", "Number", "of", "parameters", "*/">>),
     Lit(<<"#define", "CASADI_NP">>) \o <<Var("np")>>,
     Lit(<<>>),
     Lit(<<"/*", "Number", "of", "decision", "variables", "*/">>),
     Lit(<<"#define", "CASADI_NU">>) \o <<Var("nu")>>,
     Lit(<<>>),
     Lit(<<"/*", "Number", "of", "constraints", "to", "be", "treated",
           "using", "the", "penalty", "method", "*/">>),
     Lit(<<"#define", "CASADI_NUM_CONSTAINTS_TYPE_PENALTY">>) \o <<OrConst("ncp", 0)>>,
     Lit(<<>>) >>

Dimensions ==
  << Lit(<<"/*", "Global", "constant", "definitions", "*/">>),
     Lit(<<>>),
     Lit(<<"/*", "Number", "of", "decision", "variables", "*/">>),
     Lit(<<"#define", "CASADI_NU">>) \o <<Var("nu")>>,
     Lit(<<>>),
     Lit(<<"/*", "Number", "of", "parameters", "*/">>),
     Lit(<<"#define", "CASADI_NP">>) \o <<Var("np")>>,
     Lit(<<>>),
     Lit(<<"/*", "Number", "of", "constraints", "to", "be", "treated",
           "using", "the", "penalty", "method", "*/">>),
     Lit(<<"#define", "CASADI_NUM_CONSTAINTS_TYPE_PENALTY">>) \o <<OrConst("ncp", 0)>>,
     Lit(<<>>) >>

SymbolsParameterized ==
  << Lit(<<"/*", "Name", "of", "cost", "function", "*/">>),
     Lit(<<"#define", "CASADI_COST_NAME", "phi">>),
     Lit(<<>>),
     Lit(<<"/*", "Name", "of", "the", "gradient", "of", "the", "cost", "function", "*/">>),
     Lit(<<"#define", "CASADI_GRAD_NAME">>) \o <<Var("grad_name")>>,
     Lit(<<>>),
     Lit(<<"/*", "Name", "of", "c(x)", "--", "constraints", "as", "penalties", "*/">>),
     Lit(<<"#define", "CASADI_CONSTRAINTS_AS_PENALTY_NAME", "constraints_as_penalty">>),
     Lit(<<>>) >>

Symbols ==
  << Lit(<<"/*", "Name", "of", "cost", "function", "*/">>),
     Lit(<<"#define", "CASADI_COST_NAME", "phi">>),
     Lit(<<>>),
     Lit(<<"/*", "Name", "of", "the", "gradient", "of", "the", "cost", "function", "*/">>),
     Lit(<<"#define", "CASADI_GRAD_NAME", "grad_phi">>),
     Lit(<<>>),
     Lit(<<"/*", "Name", "of", "c(x)", "--", "constraints", "as", "penalties", "*/">>),
     Lit(<<"#define", "CASADI_CONSTRAINTS_AS_PENALTY_NAME", "constraints_as_penalty">>),
     Lit(<<>>) >>

GuardClose == << Lit(<<"#endif">>) >>

Template == Banner \o GuardOpen \o Dimensions \o Symbols \o GuardClose

(***************************************************************************)
(* Values and their text.  A name that the context does not bind           *)
(* evaluates to the undefined value, which is false and prints as the      *)
(* empty string; an integer is false iff it is 0 and prints in decimal.    *)
(***************************************************************************)
Undefined == [def |-> FALSE, n |-> 0]

IntVal(i) == [def |-> TRUE, n |-> i]

DigitChar == <<"0", "1", "2", "3", "4", "5", "6", "7", "8", "9">>

RECURSIVE NatStr(_)
NatStr(i) == IF i < 10 THEN DigitChar[i + 1]
             ELSE NatStr(i \div 10) \o DigitChar[(i % 10) + 1]

IntStrUnsigned(i) == NatStr(IF i < 0 THEN 0 - i ELSE i)

IntStr(i) == IF i < 0 THEN "-" \o NatStr(0 - i) ELSE NatStr(i)

Finalize(v) == IF v.def THEN IntStr(v.n) ELSE ""

Truthy(v) == v.def /\ v.n # 0

LookupSwapped(ctx, name) ==
  LET n == IF name = "nu" THEN "np" ELSE IF name = "np" THEN "nu" ELSE name
  IN  IF n \in DOMAIN ctx THEN IntVal(ctx[n]) ELSE Undefined

Lookup(ctx, name) == IF name \in DOMAIN ctx THEN IntVal(ctx[name]) ELSE Undefined

EvalNoDefault(seg, ctx) == Lookup(ctx, seg.s)

Eval(seg, ctx) ==
  IF seg.kind = "var" THEN Lookup(ctx, seg.s)
  ELSE IF Truthy(Lookup(ctx, seg.s)) THEN Lookup(ctx, seg.s) ELSE IntVal(seg.k)

EmitTextStamped(w) == IF w = "Auto-generated" THEN w \o "#" \o NatStr(renders) ELSE w

EmitText(w) == w

RenderSeg(seg, ctx) ==
  IF seg.kind = "text" THEN EmitText(seg.s) ELSE Finalize(Eval(seg, ctx))

RenderLine(line, ctx) == [i \in 1..Len(line) |-> RenderSeg(line[i], ctx)]

RenderLinesShort(from, to, ctx) == [i \in 1..(to - from) |-> RenderLine(Template[from + i - 1], ctx)]

RenderLines(from, to, ctx) == [i \in 1..(to - from + 1) |-> RenderLine(Template[from + i - 1], ctx)]

(***************************************************************************)
(* A render call emits the template piece by piece: each piece is the      *)
(* literal text up to and including the next placeholder, or up to the end *)
(* of the template.                                                        *)
(***************************************************************************)
HasPlaceholder(line) == \E i \in 1..Len(line) : line[i].kind # "text"

NextStop(pos) ==
  IF \E j \in (pos + 1)..Len(Template) : HasPlaceholder(Template[j])
  THEN CHOOSE j \in (pos + 1)..Len(Template) :
         /\ HasPlaceholder(Template[j])
         /\ \A m \in (pos + 1)..(j - 1) : ~HasPlaceholder(Template[m])
  ELSE Len(Template)

RECURSIVE RenderFrom(_, _)
RenderFrom(pos, ctx) ==
  IF pos >= Len(Template) THEN <<>>
  ELSE RenderLines(pos + 1, NextStop(pos), ctx) \o RenderFrom(NextStop(pos), ctx)

Render(ctx) == RenderFrom(0, ctx)

(***************************************************************************)
(* Inputs.  The context binds nu and np, and ncp when the penalty count is *)
(* given.                                                                  *)
(***************************************************************************)
Counts == {-1, 0, 2, MaxDim}

Inputs == [nu : Counts, np : Counts] \cup [nu : Counts, np : Counts, ncp : Counts]

Distinct(d) ==
  /\ d["nu"] > 0
  /\ d["np"] > 0
  /\ d["nu"] # d["np"]
  /\ ("ncp" \in DOMAIN d) => (d["ncp"] = d["nu"])

SomeInputs == {d \in Inputs : Distinct(d)}

Callers == 1..NCallers

Slots == 1..NFiles

NoCtx == <<>>

Idle == [pc |-> "idle", pos |-> 0, ctx |-> NoCtx, out |-> <<>>]

NoFile == [ctx |-> NoCtx, text |-> <<>>]

(***************************************************************************)
(* The render calls, and the pipeline that keeps the returned text as the  *)
(* generated artifact.                                                     *)
(***************************************************************************)
Begin(c, d) ==
  /\ calls[c].pc = "idle"
  /\ renders < MaxRenders
  /\ calls' = [calls EXCEPT ![c] = [pc |-> "run", pos |-> 0, ctx |-> d, out |-> <<>>]]
  /\ renders' = renders + 1
  /\ UNCHANGED <<file, files, unit>>

SharedCtx == calls[CHOOSE k \in Callers : /\ calls[k].pc = "run"
                                          /\ \A j \in Callers : calls[j].pc = "run" => j <= k].ctx

StepShared(c) ==
  /\ calls[c].pc = "run"
  /\ calls' = [calls EXCEPT ![c] =
       [pc  |-> IF NextStop(calls[c].pos) = Len(Template) THEN "done" ELSE "run",
        pos |-> NextStop(calls[c].pos),
        ctx |-> calls[c].ctx,
        out |-> calls[c].out
                  \o RenderLines(calls[c].pos + 1, NextStop(calls[c].pos), SharedCtx)]]
  /\ UNCHANGED <<file, renders, files, unit>>

Step(c) ==
  /\ calls[c].pc = "run"
  /\ calls' = [calls EXCEPT ![c] =
       [pc  |-> IF NextStop(calls[c].pos) = Len(Template) THEN "done" ELSE "run",
        pos |-> NextStop(calls[c].pos),
        ctx |-> calls[c].ctx,
        out |-> calls[c].out
                  \o RenderLines(calls[c].pos + 1, NextStop(calls[c].pos), calls[c].ctx)]]
  /\ UNCHANGED <<file, renders, files, unit>>

Store(c) ==
  /\ calls[c].pc = "done"
  /\ file' = [ctx |-> calls[c].ctx, text |-> calls[c].out]
  /\ calls' = [calls EXCEPT ![c] = Idle]
  /\ UNCHANGED <<renders, files, unit>>

Return(c) ==
  /\ calls[c].pc = "done"
  /\ calls' = [calls EXCEPT ![c] = Idle]
  /\ UNCHANGED <<file, renders, files, unit>>

(***************************************************************************)
(* The C preprocessor on a header text: comments are removed, a directive  *)
(* line is #ifndef, #define or #endif, and the lines of a group whose      *)
(* #ifndef names a defined macro are skipped.                              *)
(***************************************************************************)
RECURSIVE StripWords(_, _, _, _)
StripWords(line, i, inC, acc) ==
  IF i > Len(line) THEN [words |-> acc, inC |-> inC]
  ELSE IF inC THEN StripWords(line, i + 1, line[i] # "*/", acc)
  ELSE IF line[i] = "/*" THEN StripWords(line, i + 1, TRUE, acc)
  ELSE IF line[i] = "" THEN StripWords(line, i + 1, FALSE, acc)
  ELSE StripWords(line, i + 1, FALSE, Append(acc, line[i]))

RECURSIVE StripComments(_, _, _, _)
StripComments(text, i, inC, acc) ==
  IF i > Len(text) THEN acc
  ELSE LET r == StripWords(text[i], 1, inC, <<>>)
       IN  StripComments(text, i + 1, r.inC, Append(acc, r.words))

Active(stack) == \A i \in 1..Len(stack) : stack[i]

Directive(st, line) ==
  IF Len(line) = 0 THEN st
  ELSE IF line[1] = "#ifndef" /\ Len(line) >= 2
       THEN [st EXCEPT !.stack = Append(st.stack, Active(st.stack) /\ line[2] \notin DOMAIN st.macros)]
  ELSE IF line[1] = "#endif"
       THEN IF st.stack = <<>> THEN [st EXCEPT !.errors = st.errors + 1]
            ELSE [st EXCEPT !.stack = SubSeq(st.stack, 1, Len(st.stack) - 1)]
  ELSE IF line[1] = "#define" /\ Len(line) >= 2 /\ Active(st.stack)
       THEN [st EXCEPT !.macros = (line[2] :> Tail(Tail(line))) @@ st.macros,
                       !.log = Append(st.log, line[2]),
                       !.redefs = st.redefs
                                    + (IF /\ line[2] \in DOMAIN st.macros
                                          /\ st.macros[line[2]] # Tail(Tail(line))
                                       THEN 1 ELSE 0)]
  ELSE st

RECURSIVE Directives(_, _, _)
Directives(lines, i, st) ==
  IF i > Len(lines) THEN st
  ELSE Directives(lines, i + 1, Directive(st, lines[i]))

Preprocess(text, u) ==
  LET st == Directives(StripComments(text, 1, FALSE, <<>>), 1,
                       [macros |-> u.macros, log |-> u.log, redefs |-> u.redefs,
                        errors |-> u.errors, stack |-> <<>>])
  IN  [macros |-> st.macros, log |-> st.log, redefs |-> st.redefs,
       errors |-> st.errors + (IF st.stack = <<>> THEN 0 ELSE 1),
       included |-> u.included]

(***************************************************************************)
(* The build: headers are generated into the build's files, then one       *)
(* compilation unit includes them.                                         *)
(***************************************************************************)
NoMacros == [x \in {} |-> <<>>]

NewUnit == [macros |-> NoMacros, log |-> <<>>, redefs |-> 0, errors |-> 0, included |-> <<>>]

Generate(f, d) ==
  /\ unit.included = <<>>
  /\ files' = [files EXCEPT ![f] = Render(d)]
  /\ UNCHANGED <<calls, file, renders, unit>>

Include(f) ==
  /\ files[f] # <<>>
  /\ Len(unit.included) < MaxIncludes
  /\ unit' = [Preprocess(files[f], unit) EXCEPT !.included = Append(unit.included, f)]
  /\ UNCHANGED <<calls, file, renders, files>>

Rebuild ==
  /\ unit.included # <<>>
  /\ unit' = NewUnit
  /\ UNCHANGED <<calls, file, renders, files>>

Init ==
  /\ calls = [c \in Callers |-> Idle]
  /\ file = NoFile
  /\ renders = 0
  /\ files = [f \in Slots |-> <<>>]
  /\ unit = NewUnit

(* One renderer, any input, the pipeline storing or dropping the result. *)
Next ==
  \/ \E d \in Inputs : Begin(1, d)
  \/ Step(1)
  \/ Store(1)
  \/ Return(1)

Spec == Init /\ [][Next]_vars

(* Several callers rendering at once. *)
NextConcurrent ==
  \/ \E c \in Callers, d \in SomeInputs : Begin(c, d)
  \/ \E c \in Callers : Step(c)
  \/ \E c \in Callers : Return(c)

SpecConcurrent == Init /\ [][NextConcurrent]_vars

(* A build that generates headers and includes them in one unit. *)
NextBuild ==
  \/ \E f \in Slots, d \in SomeInputs : Generate(f, d)
  \/ \E f \in Slots : Include(f)
  \/ Rebuild

SpecBuild == Init /\ [][NextBuild]_vars

(***************************************************************************)
(* Reading a header: what a compilation unit that includes only this text  *)
(* ends up with, and decimal notation.                                     *)
(***************************************************************************)
Sentinel == "ICASADI_CONFIG_HEADER_SENTINEL"

DimMacros == <<"CASADI_NU", "CASADI_NP", "CASADI_NUM_CONSTAINTS_TYPE_PENALTY">>

NameMacros == <<"CASADI_COST_NAME", "CASADI_GRAD_NAME", "CASADI_CONSTRAINTS_AS_PENALTY_NAME">>

SixMacros == DimMacros \o NameMacros

Header(text) == Preprocess(text, NewUnit)

Has(h, name, body) ==
  /\ name \in DOMAIN h.macros
  /\ h.macros[name] = body

DefinedAs(text, name, body) == Has(Header(text), name, body)

NumeralOf(i) ==
  IF i < 10 THEN DigitChar[i + 1] ELSE DigitChar[(i \div 10) + 1] \o DigitChar[(i % 10) + 1]

SignedNumeralOf(i) == IF i < 0 THEN "-" \o NumeralOf(0 - i) ELSE NumeralOf(i)

IsCount(body) == \E i \in 0..99 : body = <<NumeralOf(i)>>

Valid(d) ==
  /\ d["nu"] >= 0
  /\ d["np"] >= 0
  /\ "ncp" \in DOMAIN d => d["ncp"] >= 0

Done(c) == calls[c].pc = "done"

Occurrences(seq, x) == Cardinality({i \in 1..Len(seq) : seq[i] = x})

NonBlank(line) == line # <<>>

Lines(text) == SelectSeq(StripComments(text, 1, FALSE, <<>>), NonBlank)

(* C1: a header rendered from non-negative nu, np and ncp, all three given,
   defines CASADI_NU as nu, CASADI_NP as np and
   CASADI_NUM_CONSTAINTS_TYPE_PENALTY as ncp, each in decimal. *)
C1_FieldMapping ==
  \A c \in Callers :
    (Done(c) /\ Valid(calls[c].ctx) /\ "ncp" \in DOMAIN calls[c].ctx) =>
      LET h == Header(calls[c].out)
      IN  /\ Has(h, "CASADI_NU", <<NumeralOf(calls[c].ctx["nu"])>>)
          /\ Has(h, "CASADI_NP", <<NumeralOf(calls[c].ctx["np"])>>)
          /\ Has(h, "CASADI_NUM_CONSTAINTS_TYPE_PENALTY", <<NumeralOf(calls[c].ctx["ncp"])>>)

C1_Witness ==
  /\ Done(1)
  /\ calls[1].ctx = [nu |-> MaxDim, np |-> 2, ncp |-> 0]

(* C2: a header rendered from an input without the penalty count (nu and np
   non-negative) defines CASADI_NUM_CONSTAINTS_TYPE_PENALTY as the literal 0,
   while the input of the call still has no penalty count. *)
C2_DefaultSubstitution ==
  \A c \in Callers :
    (Done(c) /\ "ncp" \notin DOMAIN calls[c].ctx /\ Valid(calls[c].ctx)) =>
      /\ DefinedAs(calls[c].out, "CASADI_NUM_CONSTAINTS_TYPE_PENALTY", <<"0">>)
      /\ \E i \in 1..Len(calls[c].out) :
           calls[c].out[i] = <<"#define", "CASADI_NUM_CONSTAINTS_TYPE_PENALTY", "0">>

C2_Witness ==
  /\ Done(1)
  /\ calls[1].ctx = [nu |-> 2, np |-> 2]

Complete(text) ==
  LET h == Header(text)
  IN  /\ Len(text) = Len(Template)
      /\ h.errors = 0
      /\ h.log = <<Sentinel>> \o SixMacros
      /\ \A i \in 1..Len(DimMacros) : IsCount(h.macros[DimMacros[i]])
      /\ \A i \in 1..Len(NameMacros) :
           /\ Len(h.macros[NameMacros[i]]) = 1
           /\ h.macros[NameMacros[i]][1] # ""

C4_Totality ==
  \A c \in Callers :
    (calls[c].pc # "idle" /\ Valid(calls[c].ctx)) =>
      /\ calls[c].pc = "run" => (calls[c].pos < Len(Template) /\ ENABLED Step(c))
      /\ Done(c) => Complete(calls[c].out)

C4_Witness ==
  /\ Done(1)
  /\ calls[1].ctx = [nu |-> 0, np |-> 0]
  /\ Complete(calls[1].out)

(* C5: a render of valid dimensions returns the very text that an earlier
   render of the same dimensions returned and the pipeline stored, however
   many renders happened before or in between. *)
C5_Determinism ==
  \A c \in Callers :
    (Done(c) /\ Valid(calls[c].ctx) /\ file.ctx = calls[c].ctx) =>
      calls[c].out = file.text

C5_Witness ==
  /\ Done(1)
  /\ Valid(calls[1].ctx)
  /\ file.ctx = calls[1].ctx
  /\ renders >= 3

(* C6: every header rendered from valid input defines CASADI_COST_NAME as
   phi, CASADI_GRAD_NAME as grad_phi and CASADI_CONSTRAINTS_AS_PENALTY_NAME
   as constraints_as_penalty, whatever nu, np and ncp are. *)
C6_FixedBindings ==
  \A c \in Callers :
    (Done(c) /\ Valid(calls[c].ctx)) =>
      LET h == Header(calls[c].out)
      IN  /\ Has(h, "CASADI_COST_NAME", <<"phi">>)
          /\ Has(h, "CASADI_GRAD_NAME", <<"grad_phi">>)
          /\ Has(h, "CASADI_CONSTRAINTS_AS_PENALTY_NAME", <<"constraints_as_penalty">>)

C6_Witness ==
  /\ Done(1)
  /\ calls[1].ctx = [nu |-> MaxDim, np |-> 0, ncp |-> 2]

(* C7: every rendered header defines, after the guard sentinel, exactly the
   three count macros in the order nu, np, ncp and then exactly the three
   name macros in the order cost, gradient, penalty constraints; no macro is
   defined twice and no other macro is defined.  From valid input the first
   three are numbers and the last three are not. *)
C7_Structure ==
  \A c \in Callers :
    Done(c) =>
      LET h == Header(calls[c].out)
      IN  /\ h.log = <<Sentinel>> \o DimMacros \o NameMacros
          /\ \A n \in DOMAIN h.macros : Occurrences(h.log, n) = 1
          /\ Valid(calls[c].ctx) =>
               /\ \A i \in 1..Len(DimMacros) : IsCount(h.macros[DimMacros[i]])
               /\ \A i \in 1..Len(NameMacros) : ~IsCount(h.macros[NameMacros[i]])

C7_Witness ==
  /\ Done(1)
  /\ calls[1].ctx = [nu |-> 2, np |-> MaxDim, ncp |-> MaxDim]

(* C8: in every generated header the guard tests and defines the same
   sentinel, ICASADI_CONFIG_HEADER_SENTINEL, is closed by the last line, and
   encloses the six definitions; a unit that includes one header any number
   of times processes each of the six definitions exactly once, redefines
   none, and ends with the header's own definitions. *)
GuardWrapped(text) ==
  LET ls == Lines(text)
  IN  /\ Len(ls) = 9
      /\ ls[1] = <<"#ifndef", Sentinel>>
      /\ ls[2] = <<"#define", Sentinel>>
      /\ ls[Len(ls)] = <<"#endif">>
      /\ \A i \in 1..Len(SixMacros) :
           /\ ls[2 + i][1] = "#define"
           /\ ls[2 + i][2] = SixMacros[i]

SameHeader == \A i, j \in 1..Len(unit.included) : files[unit.included[i]] = files[unit.included[j]]

C8_GuardWrapping ==
  /\ \A f \in Slots : files[f] # <<>> => GuardWrapped(files[f])
  /\ (unit.included # <<>> /\ SameHeader) =>
       /\ \A i \in 1..Len(SixMacros) : Occurrences(unit.log, SixMacros[i]) = 1
       /\ unit.redefs = 0
       /\ unit.errors = 0
       /\ unit.macros = Header(files[unit.included[1]]).macros

C8_Witness ==
  /\ Len(unit.included) >= 3
  /\ SameHeader
  /\ Occurrences(unit.log, "CASADI_NU") = 1

(* C9, as claimed: in a unit that includes several generated headers, no
   header's definitions are skipped: each included header's six definitions
   are in the unit. *)
C9_GuardUnique ==
  \A i \in 1..Len(unit.included) :
    \A k \in 1..Len(SixMacros) :
      /\ SixMacros[k] \in DOMAIN unit.macros
      /\ unit.macros[SixMacros[k]] = Header(files[unit.included[i]]).macros[SixMacros[k]]

(* C9, amended: the guard's open and close tokens match, and the sentinel is
   the same fixed token in every header rendered from the template, whatever
   the dimensions; so a unit that includes several of them processes the
   definitions of the first one only, and skips the later ones. *)
C9_FirstHeaderWins ==
  /\ \A f \in Slots : files[f] # <<>> =>
       LET ls == Lines(files[f])
       IN  /\ ls[1] = <<"#ifndef", Sentinel>>
           /\ ls[2] = <<"#define", Sentinel>>
           /\ ls[Len(ls)] = <<"#endif">>
  /\ unit.included # <<>> =>
       /\ unit.macros = Header(files[unit.included[1]]).macros
       /\ unit.log = <<Sentinel>> \o SixMacros
       /\ unit.errors = 0

C9_Witness ==
  /\ Len(unit.included) >= 2
  /\ files[unit.included[1]] # files[unit.included[2]]
  /\ unit.macros # Header(files[unit.included[2]]).macros

(* C10: whatever the interleaving of several render calls, each call's text
   is, at every step, the text the call would have produced so far when run
   alone, and a finished call's header carries the call's own counts. *)
C10_Independence ==
  \A c \in Callers :
    calls[c].pc # "idle" =>
      /\ calls[c].out = SubSeq(Render(calls[c].ctx), 1, calls[c].pos)
      /\ Done(c) =>
           LET h == Header(calls[c].out)
           IN  /\ calls[c].pos = Len(Template)
               /\ Has(h, "CASADI_NU", <<NumeralOf(calls[c].ctx["nu"])>>)
               /\ Has(h, "CASADI_NP", <<NumeralOf(calls[c].ctx["np"])>>)
               /\ Has(h, "CASADI_NUM_CONSTAINTS_TYPE_PENALTY",
                      IF "ncp" \in DOMAIN calls[c].ctx
                      THEN <<NumeralOf(calls[c].ctx["ncp"])>> ELSE <<"0">>)

C10_Witness ==
  /\ calls[1].pc = "run"
  /\ calls[2].pc = "run"
  /\ calls[1].pos > calls[2].pos
  /\ calls[2].pos > 0
  /\ calls[1].ctx["nu"] # calls[2].ctx["nu"]
  /\ calls[1].ctx["np"] # calls[2].ctx["np"]
  /\ DOMAIN calls[1].ctx # DOMAIN calls[2].ctx

====
